---- MODULE Spec2Model ----
(* Model of create_target_sheets.py: the SvgPage canvas (add_circle,        *)
(* add_target, savePDF) and the four sheet layouts built on it.             *)
(*                                                                          *)
(* Numbers are exact rationals <<n, d>> (d > 0, lowest terms) where the     *)
(* script uses Python floats.  An arc's start point cos(a)*R + x is kept    *)
(* as the triple (x, R, a): the angle a in degrees is what is recorded.     *)
EXTENDS Integers, Sequences, FiniteSets, TLC

VARIABLES CODES, pc, call, svg_page, svg_file, runs, outcome

vars == <<CODES, pc, call, svg_page, svg_file, runs, outcome>>

(* ------------------------------------------------------------------ *)
(* Program constants                                                    *)
(* ------------------------------------------------------------------ *)
BITS == 14
DefaultWidth == 210
DefaultHeight == 298
DefaultMargin == 5
GridMargin == 10
FullTurn == 360

(* ------------------------------------------------------------------ *)
(* Bounds of the model                                                  *)
(* ------------------------------------------------------------------ *)
MaxCodes == 20
MaxIndex == 21
MaxRows == 4
MaxCols == 4
ExtraCodes == 3
MaxSeed == 1

Diameters == {-10, 0, 20, 25, 38}
ExitCodes == {0, 1}
CodeLens == {0, 16, MaxCodes}
TargetCodes == 0..(2^BITS + ExtraCodes)
TargetRadii == {10}
TargetCentres == {<<50, 70>>}

(* ------------------------------------------------------------------ *)
(* Exact arithmetic standing for Python's float arithmetic              *)
(* ------------------------------------------------------------------ *)
Abs(n) == IF n < 0 THEN -n ELSE n

RECURSIVE GCD(_, _)
GCD(a, b) == IF b = 0 THEN a ELSE GCD(b, a % b)

Rat(n, d) ==
    LET g == GCD(Abs(n), Abs(d))
        s == IF d < 0 THEN -1 ELSE 1
    IN  <<(s * n) \div g, (s * d) \div g>>

R(n) == <<n, 1>>
RAdd(a, b) == Rat(a[1] * b[2] + b[1] * a[2], a[2] * b[2])
RSub(a, b) == Rat(a[1] * b[2] - b[1] * a[2], a[2] * b[2])
RMul(a, b) == Rat(a[1] * b[1], a[2] * b[2])
RDiv(a, b) == Rat(a[1] * b[2], a[2] * b[1])
RLeq(a, b) == a[1] * b[2] <= b[1] * a[2]

(* ------------------------------------------------------------------ *)
(* The code table: find_codes.generate_codes(BITS)                      *)
(* ------------------------------------------------------------------ *)
generate_codes(len, seed) ==
    [k \in 1..len |-> ((k * 2731 + seed * 977) % (2^BITS - 1)) + 1]

(* ------------------------------------------------------------------ *)
(* SvgPage                                                              *)
(* ------------------------------------------------------------------ *)
SvgPage(width, height, margin, background_margin) ==
    [width |-> width, height |-> height, margin |-> margin,
     svg |-> << [kind |-> "svg", width |-> width, height |-> height],
                [kind |-> "rect", x |-> background_margin,
                 y |-> background_margin,
                 width |-> width - background_margin * 2,
                 height |-> height - background_margin * 2] >>]

NoPage == [width |-> 0, height |-> 0, margin |-> 0, svg |-> <<>>]

add_circle(svg, x, y, radius) ==
    Append(svg, [kind |-> "circle", cx |-> x, cy |-> y, r |-> radius])

(* (1 << (BITS - 1 - i)) & code *)
BitTestLow(code, i) == (code \div (2^i)) % 2 = 1
BitTest(code, i) == (code \div (2^(BITS - 1 - i))) % 2 = 1

(* 360 / BITS * i *)
SectorAngleShifted(i) == RMul(RDiv(R(FullTurn), R(BITS)), R(i + 1))
SectorAngle(i) == RMul(RDiv(R(FullTurn), R(BITS)), R(i))

(* 'id="first"' if first_segment else '' *)
SegmentId(first_segment) == IF first_segment THEN "first" ELSE ""

(* first_segment = False, after a segment was emitted *)
KeepFirst(first_segment) == first_segment
ClearFirst(first_segment) == FALSE

Segment(x, y, radius, i, first_segment) ==
    [kind |-> "path", x |-> x, y |-> y,
     rx |-> RMul(radius, Rat(5, 2)),
     start_deg |-> SectorAngle(i), end_deg |-> SectorAngle(i + 1),
     id |-> SegmentId(first_segment)]

RECURSIVE add_target_bits(_, _, _, _, _, _, _)
add_target_bits(svg, i, x, y, radius, code, first_segment) ==
    IF i >= BITS THEN svg
    ELSE IF BitTest(code, i)
         THEN add_target_bits(
                  Append(svg, Segment(x, y, radius, i, first_segment)),
                  i + 1, x, y, radius, code, ClearFirst(first_segment))
         ELSE add_target_bits(svg, i + 1, x, y, radius, code, first_segment)

(* what one add_target call appends to the canvas *)
target_markup(x, y, radius, code, code_num, first_segment) ==
    LET s1 == add_circle(<<>>, x, y, radius)
        s2 == Append(s1, [kind |-> "g", stroke_width |-> radius])
        s3 == add_target_bits(s2, 0, x, y, radius, code, first_segment)
        s4 == Append(s3, [kind |-> "g_end"])
    IN  Append(s4, [kind |-> "text",
                    x |-> RSub(x, RMul(radius, R(3))),
                    y |-> RAdd(y, RMul(radius, R(3))),
                    font_size |-> RDiv(radius, R(2)),
                    label |-> code_num + 1])

add_target(svg, x, y, radius, code, code_num, first_segment) ==
    svg \o target_markup(x, y, radius, code, code_num, first_segment)

(* savePDF: the scratch file, then the two exporter invocations whose  *)
(* results are assigned and not looked at.                              *)
SavedFile(svg) == Append(svg, [kind |-> "svg_end"])

ExporterRuns(e1, e2) ==
    << [action |-> "normalize", returncode |-> e1],
       [action |-> "export", returncode |-> e2] >>

savePDF(page, e1, e2) ==
    /\ svg_page' = page
    /\ svg_file' = SavedFile(page.svg)
    /\ runs' = ExporterRuns(e1, e2)
    /\ outcome' = "returned"

(* an exception leaves the handler before savePDF *)
Raise(page, exc) ==
    /\ svg_page' = page
    /\ svg_file' = <<>>
    /\ runs' = <<>>
    /\ outcome' = exc

(* ------------------------------------------------------------------ *)
(* Initial state                                                        *)
(* ------------------------------------------------------------------ *)
Init ==
    /\ \E len \in CodeLens : \E seed \in 0..MaxSeed :
           CODES = generate_codes(len, seed)
    /\ pc = "idle"
    /\ call = [fn |-> "none"]
    /\ svg_page = NoPage
    /\ svg_file = <<>>
    /\ runs = <<>>
    /\ outcome = "none"

(* the driver goes on to its next page after a call that returned *)
NextPage ==
    /\ pc = "done"
    /\ outcome = "returned"
    /\ pc' = "idle"
    /\ call' = [fn |-> "none"]
    /\ svg_page' = NoPage
    /\ svg_file' = <<>>
    /\ runs' = <<>>
    /\ outcome' = "none"
    /\ UNCHANGED CODES

(* one add_target call on a fresh default page *)
RenderTarget ==
    /\ pc = "idle"
    /\ \E c \in TargetCentres, rad \in TargetRadii, code \in TargetCodes,
          first_segment \in BOOLEAN :
         LET page == SvgPage(DefaultWidth, DefaultHeight, DefaultMargin,
                             DefaultMargin)
         IN  /\ call' = [fn |-> "add_target", code |-> code,
                         first_segment |-> first_segment, radius |-> rad]
             /\ svg_page' = [page EXCEPT !.svg =
                    add_target(page.svg, R(c[1]), R(c[2]), R(rad), code, 0,
                               first_segment)]
             /\ svg_file' = <<>>
             /\ runs' = <<>>
             /\ outcome' = "returned"
    /\ pc' = "done"
    /\ UNCHANGED CODES

(* ------------------------------------------------------------------ *)
(* Layouts                                                              *)
(* ------------------------------------------------------------------ *)
(* margin + target_size / 2 + k * spacing *)
Anchor(margin, target_size, k, spacing) ==
    RAdd(RAdd(R(margin), RDiv(R(target_size), R(2))), RMul(R(k), spacing))

(* num = code_index + i * cols + j *)
GridNumByRows(code_index, i, j, rows, cols) == code_index + i * rows + j
GridNum(code_index, i, j, rows, cols) == code_index + i * cols + j

(* (width - margin * 2 - target_size) / (count - 1) *)
GridSpacingByCount(extent, margin, target_size, count) ==
    RDiv(R(extent - margin * 2 - target_size), R(count))
GridSpacing(extent, margin, target_size, count) ==
    RDiv(R(extent - margin * 2 - target_size), R(count - 1))

RECURSIVE grid_cols(_, _, _, _)
grid_cols(svg, i, j, p) ==
    IF j >= p.cols THEN svg
    ELSE LET num == GridNum(p.code_index, i, j, p.rows, p.cols)
         IN  grid_cols(
                 IF num < Len(CODES)
                 THEN add_target(svg,
                          Anchor(p.margin, p.target_size, j, p.x_spacing),
                          Anchor(p.margin, p.target_size, i, p.y_spacing),
                          RDiv(R(p.diameter), R(2)), CODES[num + 1], num, TRUE)
                 ELSE svg,
                 i, j + 1, p)

RECURSIVE grid_rows(_, _, _)
grid_rows(svg, i, p) ==
    IF i >= p.rows THEN svg
    ELSE grid_rows(grid_cols(svg, i, 0, p), i + 1, p)

create_sheet_grid ==
    /\ pc = "idle"
    /\ \E diameter \in Diameters, code_index \in 0..MaxIndex,
          rows \in 0..MaxRows, cols \in 0..MaxCols,
          e1 \in ExitCodes, e2 \in ExitCodes :
         LET page == SvgPage(DefaultWidth, DefaultHeight, GridMargin,
                             DefaultMargin)
             target_size == diameter * 3
         IN  /\ call' = [fn |-> "grid", diameter |-> diameter,
                         code_index |-> code_index, rows |-> rows,
                         cols |-> cols]
             /\ IF cols - 1 = 0 \/ rows - 1 = 0
                THEN Raise(page, "ZeroDivisionError")
                ELSE LET p == [diameter |-> diameter,
                               code_index |-> code_index,
                               rows |-> rows, cols |-> cols,
                               margin |-> page.margin,
                               target_size |-> target_size,
                               x_spacing |-> GridSpacing(page.width,
                                   page.margin, target_size, cols),
                               y_spacing |-> GridSpacing(page.height,
                                   page.margin, target_size, rows)]
                     IN  savePDF([page EXCEPT !.svg =
                                      grid_rows(page.svg, 0, p)],
                                 e1, e2)
    /\ pc' = "done"
    /\ UNCHANGED CODES

(* the uncoded markers of a sheet: cells (col, row) of the anchor grid *)
RECURSIVE add_dots(_, _, _, _)
add_dots(svg, cells, k, p) ==
    IF k > Len(cells) THEN svg
    ELSE add_dots(
             add_circle(svg,
                 Anchor(p.margin, p.target_size, cells[k][1], p.x_spacing),
                 Anchor(p.margin, p.target_size, cells[k][2], p.y_spacing),
                 RDiv(R(p.diameter), R(2))),
             cells, k + 1, p)

SheetParams(page, diameter, y_div) ==
    [diameter |-> diameter, margin |-> page.margin,
     target_size |-> diameter * 3,
     x_spacing |-> R(page.width - page.margin * 2 - diameter * 3),
     y_spacing |-> RDiv(R(page.height - page.margin * 2 - diameter * 3),
                        R(y_div))]

CornerDotsA == << <<1, 0>>, <<1, 1>>, <<0, 2>>, <<0, 3>> >>
CornerDotsC == << <<0, 0>>, <<1, 0>>, <<0, 2>>, <<1, 2>> >>

create_sheet_a ==
    /\ pc = "idle"
    /\ \E diameter \in Diameters, code_index \in 0..MaxIndex,
          e1 \in ExitCodes, e2 \in ExitCodes :
         LET page == SvgPage(DefaultWidth, DefaultHeight, DefaultMargin,
                             DefaultMargin)
             p == SheetParams(page, diameter, 3)
             rad == RDiv(R(diameter), R(2))
             w4 == RDiv(R(page.width), R(4))
             h4 == RDiv(R(page.height), R(4))
         IN  /\ call' = [fn |-> "a", diameter |-> diameter,
                         code_index |-> code_index]
             /\ IF code_index >= Len(CODES)
                THEN Raise(page, "IndexError")
                ELSE LET s1 == add_target(page.svg, w4, h4, rad,
                                   CODES[code_index + 1], code_index, TRUE)
                     IN  IF code_index + 1 >= Len(CODES)
                         THEN Raise([page EXCEPT !.svg = s1], "IndexError")
                         ELSE LET s2 == add_target(s1, RMul(w4, R(3)),
                                            RMul(h4, R(3)), rad,
                                            CODES[code_index + 2],
                                            code_index + 1, FALSE)
                              IN  savePDF([page EXCEPT !.svg =
                                      add_dots(s2, CornerDotsA, 1, p)],
                                      e1, e2)
    /\ pc' = "done"
    /\ UNCHANGED CODES

(* code_index % 2 == 0 *)
EvenIndexInverted(code_index) == code_index % 2 = 1
EvenIndex(code_index) == code_index % 2 = 0

SheetBCol(code_index) == IF EvenIndex(code_index) THEN 0 ELSE 1
SheetBRow(code_index) == IF EvenIndex(code_index) THEN 0 ELSE 2
SheetBCoded(quarter, code_index) ==
    IF EvenIndex(code_index) THEN RMul(quarter, R(3)) ELSE quarter

create_sheet_b ==
    /\ pc = "idle"
    /\ \E diameter \in Diameters, code_index \in 0..MaxIndex,
          e1 \in ExitCodes, e2 \in ExitCodes :
         LET page == SvgPage(DefaultWidth, DefaultHeight, DefaultMargin,
                             DefaultMargin)
             p == SheetParams(page, diameter, 3)
             rad == RDiv(R(diameter), R(2))
             col == SheetBCol(code_index)
             row == SheetBRow(code_index)
             coded_x == SheetBCoded(RDiv(R(page.width), R(4)), code_index)
             coded_y == SheetBCoded(RDiv(R(page.height), R(4)), code_index)
         IN  /\ call' = [fn |-> "b", diameter |-> diameter,
                         code_index |-> code_index]
             /\ IF code_index >= Len(CODES)
                THEN Raise(page, "IndexError")
                ELSE LET s1 == add_target(page.svg, coded_x, coded_y, rad,
                                   CODES[code_index + 1], code_index, TRUE)
                         s2 == add_dots(s1,
                                   << <<col, row>>, <<col, row + 1>> >>, 1, p)
                     IN  savePDF([page EXCEPT !.svg =
                                     add_dots(s2, CornerDotsA, 1, p)],
                                 e1, e2)
    /\ pc' = "done"
    /\ UNCHANGED CODES

create_sheet_c ==
    /\ pc = "idle"
    /\ \E diameter \in Diameters, code_index \in 0..MaxIndex,
          e1 \in ExitCodes, e2 \in ExitCodes :
         LET page == SvgPage(DefaultWidth, DefaultHeight, DefaultMargin,
                             DefaultMargin)
             p == SheetParams(page, diameter, 2)
             rad == RDiv(R(diameter), R(2))
         IN  /\ call' = [fn |-> "c", diameter |-> diameter,
                         code_index |-> code_index]
             /\ IF code_index >= Len(CODES)
                THEN Raise(page, "IndexError")
                ELSE LET s1 == add_target(page.svg,
                                   RDiv(R(page.width), R(2)),
                                   RDiv(R(page.height), R(2)), rad,
                                   CODES[code_index + 1], code_index, TRUE)
                     IN  savePDF([page EXCEPT !.svg =
                                     add_dots(s1, CornerDotsC, 1, p)],
                                 e1, e2)
    /\ pc' = "done"
    /\ UNCHANGED CODES

Next ==
    \/ create_sheet_grid
    \/ create_sheet_a
    \/ create_sheet_b
    \/ create_sheet_c
    \/ NextPage

Spec == Init /\ [][Next]_vars

TypeOK ==
    /\ pc \in {"idle", "done"}
    /\ outcome \in {"none", "returned", "IndexError", "ZeroDivisionError"}

(* ------------------------------------------------------------------ *)
(* Reading a canvas back                                                *)
(* ------------------------------------------------------------------ *)
Paths(svg) == SelectSeq(svg, LAMBDA e : e.kind = "path")

TaggedCount(svg) ==
    Len(SelectSeq(svg, LAMBDA e : e.kind = "path" /\ e.id = "first"))

CircleCount(svg) == Len(SelectSeq(svg, LAMBDA e : e.kind = "circle"))

(* the sector a segment starts at, -1 if it starts at no sector boundary *)
SectorOf(path) ==
    LET q == RDiv(RMul(path.start_deg, R(BITS)), R(FullTurn))
    IN  IF q[2] = 1 THEN q[1] ELSE -1

RECURSIVE SumWeights(_)
SumWeights(S) ==
    IF S = {} THEN 0
    ELSE LET i == CHOOSE i \in S : TRUE
         IN  2^(BITS - 1 - i) + SumWeights(S \ {i})

(* the code read back from a sequence of segments *)
Decode(paths) == SumWeights({SectorOf(paths[k]) : k \in 1..Len(paths)})

RECURSIVE PopCount(_)
PopCount(c) == IF c = 0 THEN 0 ELSE (c % 2) + PopCount(c \div 2)

(* the sectors of the set bits of c, most significant bit first *)
SetSectors(c) ==
    SelectSeq([k \in 1..BITS |-> k - 1],
              LAMBDA i : (c \div 2^(BITS - 1 - i)) % 2 = 1)

(* the targets of a canvas, in drawing order: each label closes one *)
LabelIdx(svg) ==
    SelectSeq([k \in 1..Len(svg) |-> k], LAMBDA k : svg[k].kind = "text")

GroupStart(svg, t) ==
    CHOOSE g \in 1..t : /\ svg[g].kind = "g"
                        /\ \A h \in (g + 1)..t : svg[h].kind # "g"

TargetAt(svg, t) ==
    LET g == GroupStart(svg, t)
    IN  [cx |-> svg[g - 1].cx, cy |-> svg[g - 1].cy, r |-> svg[g - 1].r,
         code |-> Decode(Paths(SubSeq(svg, g + 1, t - 2))),
         label |-> svg[t].label]

Targets(svg) ==
    LET idx == LabelIdx(svg)
    IN  [k \in 1..Len(idx) |-> TargetAt(svg, idx[k])]

IsLayout == call.fn \in {"grid", "a", "b", "c"}
Rendered == pc = "done" /\ call.fn = "add_target"
Saved == svg_file # <<>>

(* ------------------------------------------------------------------ *)
(* Properties                                                           *)
(* ------------------------------------------------------------------ *)

(* C1: for a code c below 2^14 one add_target call emits popcount(c)    *)
(* segments; the k-th emitted segment belongs to the k-th set bit       *)
(* counted from the most significant, and spans sector i of that bit:   *)
(* from 360*i/14 to 360*(i+1)/14 degrees.                               *)
C1_SegmentsMatchBits ==
    (Rendered /\ call.code < 2^BITS) =>
        LET P == Paths(svg_page.svg)
            B == SetSectors(call.code)
        IN  /\ Len(P) = PopCount(call.code)
            /\ Len(P) = Len(B)
            /\ \A k \in 1..Len(P) :
                   /\ P[k].start_deg[1] * BITS = FullTurn * B[k] * P[k].start_deg[2]
                   /\ P[k].end_deg[1] * BITS
                          = FullTurn * (B[k] + 1) * P[k].end_deg[2]
            /\ \A k \in 1..(Len(P) - 1) :
                   ~ RLeq(P[k + 1].start_deg, P[k].start_deg)

C1_Witness ==
    /\ Rendered
    /\ call.code = 2^13 + 2^6 + 1
    /\ Len(Paths(svg_page.svg)) = 3
    /\ Paths(svg_page.svg)[3].end_deg = R(FullTurn)

(* C2: summing 2^(13-i) over the sectors i that carry a segment gives   *)
(* back the code that was rendered, for every code below 2^14.          *)
C2_RoundTrip ==
    (Rendered /\ call.code < 2^BITS) =>
        Decode(Paths(svg_page.svg)) = call.code

C2_Witness ==
    /\ Rendered
    /\ call.code = 2^13 + 2
    /\ {SectorOf(e) : e \in {Paths(svg_page.svg)[k] : k \in 1..2}} = {0, 12}

(* C4: within one add_target call the first emitted segment is tagged   *)
(* exactly when first_segment was true and no later segment is tagged;  *)
(* so a call with first_segment false tags nothing, and so does a call  *)
(* whose code has none of the 14 bits set.                              *)
C4_OnlyFirstSegmentTagged ==
    Rendered =>
        LET P == Paths(svg_page.svg)
        IN  /\ Len(P) >= 1 => (P[1].id = "first" <=> call.first_segment)
            /\ \A k \in 2..Len(P) : P[k].id # "first"
            /\ ~ call.first_segment => TaggedCount(svg_page.svg) = 0
            /\ call.code % 2^BITS = 0 => TaggedCount(svg_page.svg) = 0

C4_Witness ==
    /\ Rendered
    /\ call.first_segment
    /\ Len(Paths(svg_page.svg)) >= 2
    /\ Paths(svg_page.svg)[1].id = "first"
    /\ TaggedCount(svg_page.svg) = 1

(* the cells of a grid call that have a code, row-major *)
FilledCells ==
    SelectSeq([k \in 1..(call.rows * call.cols) |-> k - 1],
              LAMBDA k : call.code_index + k < Len(CODES))

ExpectedCell(k) ==
    LET i == k \div call.cols
        j == k % call.cols
        d == call.diameter
        off == Rat(2 * GridMargin + 3 * d, 2)
    IN  [cx |-> RAdd(off, Rat(j * (DefaultWidth - 2 * GridMargin - 3 * d),
                              call.cols - 1)),
         cy |-> RAdd(off, Rat(i * (DefaultHeight - 2 * GridMargin - 3 * d),
                              call.rows - 1)),
         r |-> Rat(d, 2),
         code |-> CODES[call.code_index + k + 1],
         label |-> call.code_index + k + 1]

(* C5: a grid call with rows >= 2 and cols >= 2 places a target in cell *)
(* (i, j) exactly when start_index + i*cols + j is below the number of  *)
(* codes, with that code and the label start_index + i*cols + j + 1, in *)
(* row-major order; the other cells stay empty and no error is raised.  *)
C5_GridPlacement ==
    (pc = "done" /\ call.fn = "grid" /\ call.rows >= 2 /\ call.cols >= 2) =>
        /\ outcome \notin {"IndexError", "ZeroDivisionError"}
        /\ Saved
        /\ Targets(svg_page.svg)
               = [n \in 1..Len(FilledCells) |-> ExpectedCell(FilledCells[n])]

C5_Witness ==
    /\ pc = "done" /\ call.fn = "grid"
    /\ call.rows = 4 /\ call.cols = 2 /\ call.code_index = 12
    /\ Len(CODES) = 16
    /\ [n \in 1..Len(Targets(svg_page.svg)) |->
            Targets(svg_page.svg)[n].label] = <<13, 14, 15, 16>>

GridCall ==
    pc = "done" /\ call.fn = "grid" /\ call.rows >= 2 /\ call.cols >= 2
        /\ call.diameter > 0

CentresApart ==
    /\ RLeq(R(call.diameter),
            GridSpacing(DefaultWidth, GridMargin, 3 * call.diameter,
                        call.cols))
    /\ RLeq(R(call.diameter),
            GridSpacing(DefaultHeight, GridMargin, 3 * call.diameter,
                        call.rows))
    /\ LET T == Targets(svg_page.svg)
       IN  \A a \in 1..Len(T), b \in 1..Len(T) :
               a # b =>
                   LET dx == RSub(T[a].cx, T[b].cx)
                       dy == RSub(T[a].cy, T[b].cy)
                   IN  RLeq(R(call.diameter * call.diameter),
                            RAdd(RMul(dx, dx), RMul(dy, dy)))

GridFits ==
    /\ (call.cols + 2) * call.diameter <= DefaultWidth - 2 * GridMargin
    /\ (call.rows + 2) * call.diameter <= DefaultHeight - 2 * GridMargin

(* C9, as stated: for every grid with rows >= 2, cols >= 2 and positive *)
(* diameter, x_spacing and y_spacing are at least the diameter and any  *)
(* two distinct target centres are at least a diameter apart.           *)
C9_SpacingAlwaysAtLeastDiameter == GridCall => CentresApart

(* C9, amended: the same for the grids that fit the page, that is with  *)
(* (cols + 2) * diameter <= width - 2*margin and                        *)
(* (rows + 2) * diameter <= height - 2*margin.                          *)
C9_SpacingAtLeastDiameterWhenGridFits ==
    (GridCall /\ GridFits) => CentresApart

C9_Witness ==
    /\ GridCall /\ GridFits
    /\ call.diameter = 38 /\ call.cols = 3 /\ call.rows = 4
    /\ Len(Targets(svg_page.svg)) = 12

(* the reference dots of a canvas: the circles that are no target centre *)
ReferenceDots(svg) ==
    SelectSeq([k \in 1..Len(svg) |-> k],
              LAMBDA k : /\ svg[k].kind = "circle"
                         /\ (k = Len(svg) \/ svg[k + 1].kind # "g"))

DotAt(svg, n) ==
    LET e == svg[ReferenceDots(svg)[n]] IN <<e.cx, e.cy>>

SheetBDot(col, row) ==
    LET d == call.diameter
        off == Rat(2 * DefaultMargin + 3 * d, 2)
    IN  << RAdd(off, R(col * (DefaultWidth - 2 * DefaultMargin - 3 * d))),
           RAdd(off, Rat(row * (DefaultHeight - 2 * DefaultMargin - 3 * d),
                         3)) >>

(* C10: a create_sheet_b page holds one coded target, drawn from the    *)
(* one code CODES[code_index], and six reference dots; an even index    *)
(* puts the target at (3*width/4, 3*height/4) with its two orientation  *)
(* dots in cells (0,0) and (0,1), an odd index at (width/4, height/4)   *)
(* with the orientation dots in cells (1,2) and (1,3).                  *)
C10_SheetBSlotByParity ==
    (pc = "done" /\ call.fn = "b" /\ Saved) =>
        LET T == Targets(svg_file)
            even == call.code_index % 2 = 0
        IN  /\ Len(T) = 1
            /\ T[1].code = CODES[call.code_index + 1]
            /\ T[1].label = call.code_index + 1
            /\ Len(ReferenceDots(svg_file)) = 6
            /\ CircleCount(svg_file) = 7
            /\ T[1].cx = (IF even THEN Rat(3 * DefaultWidth, 4)
                                  ELSE Rat(DefaultWidth, 4))
            /\ T[1].cy = (IF even THEN Rat(3 * DefaultHeight, 4)
                                  ELSE Rat(DefaultHeight, 4))
            /\ DotAt(svg_file, 1) = (IF even THEN SheetBDot(0, 0)
                                             ELSE SheetBDot(1, 2))
            /\ DotAt(svg_file, 2) = (IF even THEN SheetBDot(0, 1)
                                             ELSE SheetBDot(1, 3))
            /\ <<SheetBDot(0, 0), SheetBDot(0, 1)>>
                   # <<SheetBDot(1, 2), SheetBDot(1, 3)>>

C10_Witness ==
    /\ pc = "done" /\ call.fn = "b" /\ Saved
    /\ call.code_index = 18
    /\ Len(Targets(svg_file)) = 1
    /\ Targets(svg_file)[1].cx = Rat(3 * DefaultWidth, 4)
    /\ Len(ReferenceDots(svg_file)) = 6

Misconfigured ==
    \/ call.diameter <= 0
    \/ call.fn = "grid" /\ (call.rows <= 0 \/ call.cols <= 0)

(* C3: on every page a layout hands to savePDF exactly one segment of   *)
(* the whole page carries id="first".  Stated for the calls with        *)
(* positive diameter, rows and cols whose page holds a target.          *)
C3_OneAnchorPerPage ==
    (pc = "done" /\ IsLayout /\ ~ Misconfigured /\ Saved
         /\ Len(Targets(svg_file)) >= 1) =>
        TaggedCount(svg_file) = 1

(* an index the call asks for lies beyond the code table *)
RangeExhausted ==
    \/ call.fn = "grid" /\ call.rows >= 2 /\ call.cols >= 2
           /\ call.code_index + call.rows * call.cols - 1 >= Len(CODES)
    \/ call.fn = "a" /\ call.code_index + 1 >= Len(CODES)
    \/ call.fn \in {"b", "c"} /\ call.code_index >= Len(CODES)

(* C6: in every layout a code index beyond the code table raises no     *)
(* error: the slot is left out and the page reaches savePDF.  Stated    *)
(* for the calls with positive diameter, rows and cols.                 *)
C6_RangeExhaustionNonFatal ==
    (pc = "done" /\ IsLayout /\ ~ Misconfigured /\ RangeExhausted) =>
        outcome # "IndexError" /\ Saved

(* C7: when one of the two exporter invocations of savePDF exits        *)
(* non-zero the call does not return as if it had succeeded, and the    *)
(* exporter is invoked at most twice.  Stated for the calls with        *)
(* positive diameter, rows and cols.                                    *)
C7_ExporterFailureSurfaced ==
    (pc = "done" /\ IsLayout /\ ~ Misconfigured) =>
        /\ Len(runs) <= 2
        /\ (\E n \in 1..Len(runs) : runs[n].returncode # 0)
               => outcome # "returned"

DrawnCount(svg) ==
    Len(SelectSeq(svg, LAMBDA e : e.kind \in {"circle", "path", "text"}))

(* C8: a layout call with diameter <= 0, or a grid call with rows <= 0  *)
(* or cols <= 0, raises an error before anything is drawn and before    *)
(* the exporter is invoked.                                             *)
C8_MisconfigurationFailsFast ==
    (pc = "done" /\ IsLayout /\ Misconfigured) =>
        /\ outcome # "returned"
        /\ DrawnCount(svg_page.svg) = 0
        /\ ~ Saved
        /\ runs = <<>>

InitTarget == Init /\ Len(CODES) = MaxCodes
NextTarget == RenderTarget \/ NextPage
SpecTarget == InitTarget /\ [][NextTarget]_vars

====
